---- MODULE Spec2Model ----
(***************************************************************************)
(* Model of the timer-cli stopwatch: the Timer engine of src/src/lib.rs    *)
(* (start / stop / reset / elapsed / lap, format_duration) and the watch   *)
(* driver run_watch of src/src/main.rs with its detached listener thread,  *)
(* together with the callers of main.rs: run_repl, run_batch, dispatch,    *)
(* export_laps and measure_command.                                        *)
(*                                                                         *)
(* Time is the reading of the monotonic clock (Instant::now) in            *)
(* nanoseconds.  The clock advances by the environment action Tick; two    *)
(* successive readings may be equal (Instant is monotonic, not strictly    *)
(* increasing).  Option<T> is modelled as a sequence of length <= 1.       *)
(***************************************************************************)
EXTENDS Integers, Sequences, FiniteSets, TLC

VARIABLES
    now,        \* reading of the monotonic clock, in nanoseconds
    t,          \* the Timer owned by the caller: start_time, elapsed, running, laps
    pc,         \* position of the main thread: "idle" (dispatcher) or inside run_watch
    stop_flag,  \* stop_flag[s]: the AtomicBool created by the s-th call of run_watch
    listener,   \* listener[s]: position of the reader thread spawned by the s-th run_watch
    display,    \* the text last printed by an elapsed command or a watch render
    hist,       \* log of the calls of start/stop/reset/lap: operation, caller, result and
                \* the instant read by a successful start or stop
    obs,        \* renders and sleeps of the current watch session since its flag was raised
    mode,       \* the caller chosen by main: "repl", or "batch_check" then "batch"
    cmds,       \* run_batch: the commands the for loop has not taken yet
    exit,       \* the exit code of the process once it has terminated
    ret,        \* the command last dispatched and the Result dispatch returned
    mt,         \* measure_command: its own Timer while the external command runs
    child,      \* measure_command: the program and arguments handed to Command::new
    arg         \* a direct call of format_duration: its Duration as whole seconds and
                \* sub-second nanoseconds, None when the program itself is run

caller == <<mode, cmds, exit, ret, mt, child>>

vars == <<now, t, pc, stop_flag, listener, display, hist, obs,
          mode, cmds, exit, ret, mt, child, arg>>

----------------------------------------------------------------------------
(* Bounds of the model *)

MaxTicks    == 2        \* the clock advances at most this many times
TickNanos   == 500000   \* one advance of the clock, in nanoseconds
MaxCalls    == 4        \* logged engine calls in one behaviour
MaxSessions == 2        \* calls of run_watch in one behaviour
MaxBatch    == 2        \* commands on the command line of batch mode

(* Program constants *)

NanosPerMilli == 1000000    \* Duration::as_millis

None == <<>>
Some(x) == <<x>>
IsSome(o) == o # <<>>
Unwrap(o) == o[1]

Labels == {None, Some("a")}

\* A command is the sequence of tokens split_whitespace yields for one line
\* (REPL) or one argument (batch).  The lines typed at the REPL are drawn
\* from ReplCommands, the arguments of batch mode from BatchCommands.
ExportFormats == {None, Some("csv"), Some("xml")}
CmdLines == {<<>>, <<"true">>, <<"--", "true">>, <<"nosuch">>}
UnknownCommands == {<<>>, <<"bogus">>}
ReplCommands ==
    {<<"start">>, <<"stop">>, <<"reset">>, <<"elapsed">>, <<"watch">>} \cup
    {<<"lap">> \o label : label \in Labels}
BatchCommands ==
    {<<"start">>, <<"stop">>, <<"reset">>, <<"elapsed">>, <<"watch">>, <<"lap">>} \cup
    {<<"export">> \o f : f \in ExportFormats} \cup
    {<<"measure">> \o cl : cl \in CmdLines} \cup
    UnknownCommands
BatchLists == UNION {[1..n -> BatchCommands] : n \in 0..MaxBatch}

\* The environment of measure: the programs Command::new can launch, and the
\* exit status of a child (None: ended by a signal, no code).
Programs == {"true"}
ExitStatuses == {None, Some(0), Some(3)}

----------------------------------------------------------------------------
(* lib.rs: the Timer engine.  Every operation is a function of the timer   *)
(* value and of the clock reading taken inside the call; the mutating ones *)
(* return the new timer value together with the Result.                    *)

Timer_new == [start_time |-> None, elapsed |-> 0, running |-> FALSE, laps |-> <<>>]

\* Instant::elapsed: now - start, saturating at zero
Instant_elapsed(start, clk) == IF clk >= start THEN clk - start ELSE 0

\* Duration::as_millis: whole milliseconds, truncated
as_millis(d) == d \div NanosPerMilli

\* start that re-arms start_time before rejecting a running timer
Timer_start_Rearm(tm, clk) ==
    IF tm.running
    THEN [t |-> [tm EXCEPT !.start_time = Some(clk)], res |-> "AlreadyRunning"]
    ELSE [t |-> [tm EXCEPT !.start_time = Some(clk), !.running = TRUE], res |-> "Ok"]

Timer_start(tm, clk) ==
    IF tm.running
    THEN [t |-> tm, res |-> "AlreadyRunning"]
    ELSE [t |-> [tm EXCEPT !.start_time = Some(clk), !.running = TRUE], res |-> "Ok"]

\* stop that overwrites elapsed with the last interval instead of adding it
Timer_stop_Overwrite(tm, clk) ==
    IF ~tm.running
    THEN [t |-> tm, res |-> "NotRunning"]
    ELSE [t |-> [tm EXCEPT
                   !.elapsed = IF IsSome(tm.start_time)
                               THEN Instant_elapsed(Unwrap(tm.start_time), clk)
                               ELSE tm.elapsed,
                   !.start_time = None,
                   !.running = FALSE],
          res |-> "Ok"]

\* stop that settles elapsed before it checks running
Timer_stop_SettleFirst(tm, clk) ==
    LET settled == IF IsSome(tm.start_time)
                   THEN tm.elapsed + Instant_elapsed(Unwrap(tm.start_time), clk)
                   ELSE 0
    IN  IF ~tm.running
        THEN [t |-> [tm EXCEPT !.elapsed = settled], res |-> "NotRunning"]
        ELSE [t |-> [tm EXCEPT !.elapsed = settled, !.start_time = None, !.running = FALSE],
              res |-> "Ok"]

\* stop that reads start_time without taking it
Timer_stop_KeepOrigin(tm, clk) ==
    IF ~tm.running
    THEN [t |-> tm, res |-> "NotRunning"]
    ELSE [t |-> [tm EXCEPT
                   !.elapsed = IF IsSome(tm.start_time)
                               THEN tm.elapsed + Instant_elapsed(Unwrap(tm.start_time), clk)
                               ELSE tm.elapsed,
                   !.running = FALSE],
          res |-> "Ok"]

Timer_stop(tm, clk) ==
    IF ~tm.running
    THEN [t |-> tm, res |-> "NotRunning"]
    ELSE [t |-> [tm EXCEPT
                   !.elapsed = IF IsSome(tm.start_time)
                               THEN tm.elapsed + Instant_elapsed(Unwrap(tm.start_time), clk)
                               ELSE tm.elapsed,
                   !.start_time = None,
                   !.running = FALSE],
          res |-> "Ok"]

\* reset that forgets laps.clear()
Timer_reset_KeepLaps(tm) ==
    [start_time |-> None, elapsed |-> 0, running |-> FALSE, laps |-> tm.laps]

Timer_reset(tm) ==
    [start_time |-> None, elapsed |-> 0, running |-> FALSE, laps |-> <<>>]

\* elapsed that returns only the running slice
Timer_elapsed_SliceOnly(tm, clk) ==
    IF tm.running /\ IsSome(tm.start_time)
    THEN Instant_elapsed(Unwrap(tm.start_time), clk)
    ELSE tm.elapsed

Timer_elapsed(tm, clk) ==
    IF tm.running /\ IsSome(tm.start_time)
    THEN tm.elapsed + Instant_elapsed(Unwrap(tm.start_time), clk)
    ELSE tm.elapsed

\* lap without the running check
Timer_lap_NoGuard(tm, label, clk) ==
    LET idx   == Len(tm.laps) + 1
        at_ms == as_millis(Timer_elapsed(tm, clk))
    IN  [t |-> [tm EXCEPT !.laps = Append(tm.laps,
                              [index |-> idx, at_ms |-> at_ms, label |-> label])],
         res |-> "Ok"]

\* lap that numbers from zero
Timer_lap_ZeroBased(tm, label, clk) ==
    IF ~tm.running
    THEN [t |-> tm, res |-> "NotRunning"]
    ELSE LET idx   == Len(tm.laps)
             at_ms == as_millis(Timer_elapsed(tm, clk))
         IN  [t |-> [tm EXCEPT !.laps = Append(tm.laps,
                                   [index |-> idx, at_ms |-> at_ms, label |-> label])],
              res |-> "Ok"]

\* a lap whose offset is rounded to the nearest millisecond
Timer_lap_Rounds(tm, label, clk) ==
    IF ~tm.running
    THEN [t |-> tm, res |-> "NotRunning"]
    ELSE LET idx   == Len(tm.laps) + 1
             at_ms == (Timer_elapsed(tm, clk) + NanosPerMilli \div 2) \div NanosPerMilli
         IN  [t |-> [tm EXCEPT !.laps = Append(tm.laps,
                                   [index |-> idx, at_ms |-> at_ms, label |-> label])],
              res |-> "Ok"]

\* a lap that puts the new record in front of the older ones
Timer_lap_Prepend(tm, label, clk) ==
    IF ~tm.running
    THEN [t |-> tm, res |-> "NotRunning"]
    ELSE LET idx   == Len(tm.laps) + 1
             at_ms == as_millis(Timer_elapsed(tm, clk))
         IN  [t |-> [tm EXCEPT !.laps = <<[index |-> idx, at_ms |-> at_ms, label |-> label]>>
                                         \o tm.laps],
              res |-> "Ok"]

\* a lap that folds the running interval into elapsed and restarts the interval
Timer_lap_Settles(tm, label, clk) ==
    IF ~tm.running
    THEN [t |-> tm, res |-> "NotRunning"]
    ELSE LET idx   == Len(tm.laps) + 1
             at_ms == as_millis(Timer_elapsed(tm, clk))
         IN  [t |-> [tm EXCEPT !.laps = Append(tm.laps,
                                   [index |-> idx, at_ms |-> at_ms, label |-> label]),
                               !.elapsed = Timer_elapsed(tm, clk),
                               !.start_time = Some(clk)],
              res |-> "Ok"]

Timer_lap(tm, label, clk) ==
    IF ~tm.running
    THEN [t |-> tm, res |-> "NotRunning"]
    ELSE LET idx   == Len(tm.laps) + 1
             at_ms == as_millis(Timer_elapsed(tm, clk))
         IN  [t |-> [tm EXCEPT !.laps = Append(tm.laps,
                                   [index |-> idx, at_ms |-> at_ms, label |-> label])],
              res |-> "Ok"]

Pad2(n) == IF n < 10 THEN "0" \o ToString(n) ELSE ToString(n)
Pad3(n) == IF n < 10 THEN "00" \o ToString(n)
           ELSE IF n < 100 THEN "0" \o ToString(n) ELSE ToString(n)

\* a rendering whose minutes are not reduced modulo the hour
format_millis_TotalMinutes(ms) ==
    LET h  == ms \div 3600000
        m  == ms \div 60000
        s  == (ms % 60000) \div 1000
        mm == ms % 1000
    IN  Pad2(h) \o ":" \o Pad2(m) \o ":" \o Pad2(s) \o "." \o Pad3(mm)

\* lines 97-101: the fields of ms whole milliseconds, rendered as HH:MM:SS.mmm
format_millis(ms) ==
    LET h  == ms \div 3600000
        m  == (ms % 3600000) \div 60000
        s  == (ms % 60000) \div 1000
        mm == ms % 1000
    IN  Pad2(h) \o ":" \o Pad2(m) \o ":" \o Pad2(s) \o "." \o Pad3(mm)

\* lines 95-96: the Duration d, a count of nanoseconds, in whole milliseconds
format_duration(d) == format_millis(as_millis(d))

----------------------------------------------------------------------------
(* State after construction: main has chosen run_repl or run_batch (with   *)
(* its command list); the caller owns one fresh Timer, nothing has been    *)
(* printed, no watch session exists.                                       *)

NoObs == [renders |-> 0, sleeps |-> 0, finals |-> 0]
NoRet == [cmd |-> <<>>, res |-> "none"]

Init ==
    /\ now = 0
    /\ t = Timer_new
    /\ pc = "idle"
    /\ stop_flag = <<>>
    /\ listener = <<>>
    /\ display = ""
    /\ hist = <<>>
    /\ obs = NoObs
    /\ \/ mode = "repl" /\ cmds = <<>>
       \/ mode = "batch_check" /\ cmds \in BatchLists
    /\ exit = None
    /\ ret = NoRet
    /\ mt = None
    /\ child = None
    /\ arg = None

\* A successful start stores Instant::now() and a successful stop reads it in
\* start.elapsed(); failed calls, reset and lap log no instant.
Logged(op, by, res) ==
    Append(hist, [op |-> op, by |-> by, res |-> res,
                  at |-> IF op \in {"start", "stop"} /\ res = "Ok" THEN Some(now) ELSE None])

\* The monotonic clock advances (as long as the process is there to read it).
Tick ==
    /\ exit = None
    /\ now < MaxTicks * TickNanos
    /\ now' = now + TickNanos
    /\ UNCHANGED <<t, pc, stop_flag, listener, display, hist, obs>>
    /\ UNCHANGED caller
    /\ UNCHANGED arg

\* run_repl lines 68-83 / run_batch line 55: the caller takes the next command
\* and hands it to dispatch.  In batch mode it is the head of the list.
Fetch(cmd) ==
    /\ pc = "idle"
    /\ exit = None
    /\ mt = None
    /\ \/ mode = "repl" /\ cmd \in ReplCommands
       \/ mode = "batch" /\ cmds # <<>> /\ Head(cmds) = cmd

\* a batch loop that reports a failure and goes on with the next command
Outcome_KeepGoing(cmd, res) ==
    /\ ret' = [cmd |-> cmd, res |-> res]
    /\ IF mode = "batch"
       THEN /\ cmds' = Tail(cmds)
            /\ exit' = exit
       ELSE UNCHANGED <<cmds, exit>>
    /\ UNCHANGED mode

\* run_repl lines 83-85 / run_batch lines 56-59: dispatch returned res.  The
\* REPL reports an error and goes on; batch mode leaves with exit code 1.
Outcome(cmd, res) ==
    /\ ret' = [cmd |-> cmd, res |-> res]
    /\ IF mode = "batch"
       THEN /\ cmds' = Tail(cmds)
            /\ exit' = IF res = "Ok" THEN exit ELSE Some(1)
       ELSE UNCHANGED <<cmds, exit>>
    /\ UNCHANGED mode

----------------------------------------------------------------------------
(* main.rs dispatch: one command of the caller applied to the engine *)

Start ==
    /\ Fetch(<<"start">>)
    /\ Len(hist) < MaxCalls
    /\ LET r == Timer_start(t, now)
       IN  /\ t' = r.t
           /\ hist' = Logged("start", "dispatch", r.res)
           /\ Outcome(<<"start">>, r.res)
    /\ UNCHANGED <<now, pc, stop_flag, listener, display, obs, mt, child>>
    /\ UNCHANGED arg

Stop ==
    /\ Fetch(<<"stop">>)
    /\ Len(hist) < MaxCalls
    /\ LET r == Timer_stop(t, now)
       IN  /\ t' = r.t
           /\ hist' = Logged("stop", "dispatch", r.res)
           /\ Outcome(<<"stop">>, r.res)
    /\ UNCHANGED <<now, pc, stop_flag, listener, display, obs, mt, child>>
    /\ UNCHANGED arg

Reset ==
    /\ Fetch(<<"reset">>)
    /\ Len(hist) < MaxCalls
    /\ t' = Timer_reset(t)
    /\ hist' = Logged("reset", "dispatch", "Ok")
    /\ Outcome(<<"reset">>, "Ok")
    /\ UNCHANGED <<now, pc, stop_flag, listener, display, obs, mt, child>>
    /\ UNCHANGED arg

Elapsed ==
    /\ Fetch(<<"elapsed">>)
    /\ display' = format_duration(Timer_elapsed(t, now))
    /\ Outcome(<<"elapsed">>, "Ok")
    /\ UNCHANGED <<now, t, pc, stop_flag, listener, hist, obs, mt, child>>
    /\ UNCHANGED arg

Lap ==
    /\ Len(hist) < MaxCalls
    /\ \E label \in Labels :
         LET r == Timer_lap(t, label, now)
         IN  /\ Fetch(<<"lap">> \o label)
             /\ t' = r.t
             /\ hist' = Logged("lap", "dispatch", r.res)
             /\ Outcome(<<"lap">> \o label, r.res)
    /\ UNCHANGED <<now, pc, stop_flag, listener, display, obs, mt, child>>
    /\ UNCHANGED arg

\* lines 105 and 92: a first token outside the vocabulary, or no token at all
Unknown ==
    /\ \E cmd \in UnknownCommands :
         /\ Fetch(cmd)
         /\ Outcome(cmd, "Invalid")
    /\ UNCHANGED <<now, t, pc, stop_flag, listener, display, hist, obs, mt, child>>
    /\ UNCHANGED arg

\* Option<String>::unwrap_or_default of a lap label
LabelText(label) == IF IsSome(label) THEN Unwrap(label) ELSE ""

\* serde_json::to_string_pretty of one Lap
JsonLap(lap) ==
    "  {\n    \"index\": " \o ToString(lap.index)
    \o ",\n    \"at_ms\": " \o ToString(lap.at_ms)
    \o ",\n    \"label\": "
    \o (IF IsSome(lap.label) THEN "\"" \o Unwrap(lap.label) \o "\"" ELSE "null")
    \o "\n  }"

RECURSIVE JsonLaps(_, _)
JsonLaps(laps, i) ==
    IF i > Len(laps) THEN ""
    ELSE JsonLap(laps[i]) \o (IF i < Len(laps) THEN ",\n" ELSE "") \o JsonLaps(laps, i + 1)

\* lines 162-165: the laps as a pretty-printed JSON array
to_json(laps) == IF laps = <<>> THEN "[]" ELSE "[\n" \o JsonLaps(laps, 1) \o "\n]"

RECURSIVE CsvRows(_, _)
CsvRows(laps, i) ==
    IF i > Len(laps) THEN ""
    ELSE ToString(laps[i].index) \o "," \o ToString(laps[i].at_ms) \o ","
         \o LabelText(laps[i].label) \o "\n" \o CsvRows(laps, i + 1)

\* lines 166-178: the header row, then one row for each lap
to_csv(laps) == "index,time_ms,label\n" \o CsvRows(laps, 1)

\* lines 160-181
export_laps(tm, fmt) ==
    IF fmt = "json" THEN [out |-> Some(to_json(tm.laps)), res |-> "Ok"]
    ELSE IF fmt = "csv" THEN [out |-> Some(to_csv(tm.laps)), res |-> "Ok"]
    ELSE [out |-> None, res |-> "Invalid"]

\* line 101: export with the format json when none is given
Export ==
    /\ \E f \in ExportFormats :
         LET r == export_laps(t, IF IsSome(f) THEN Unwrap(f) ELSE "json")
         IN  /\ Fetch(<<"export">> \o f)
             /\ display' = IF IsSome(r.out) THEN Unwrap(r.out) ELSE display
             /\ Outcome(<<"export">> \o f, r.res)
    /\ UNCHANGED <<now, t, pc, stop_flag, listener, hist, obs, mt, child>>
    /\ UNCHANGED arg

\* cmdline.join(" ")
RECURSIVE Join(_, _)
Join(words, i) ==
    IF i > Len(words) THEN ""
    ELSE words[i] \o (IF i < Len(words) THEN " " ELSE "") \o Join(words, i + 1)

\* a measure that times the external command with the caller's Timer
Measure_SharedTimer ==
    /\ \E cl \in CmdLines :
         /\ Fetch(<<"measure">> \o cl)
         /\ IF cl = <<>>
            THEN /\ Outcome(<<"measure">> \o cl, "Invalid")
                 /\ UNCHANGED <<t, mt, child>>
            ELSE /\ child' = Some([prog |-> cl[1], args |-> Tail(cl)])
                 /\ t' = [t EXCEPT !.start_time = Some(now), !.running = TRUE]
                 /\ IF cl[1] \in Programs
                    THEN /\ mt' = Some(t')
                         /\ ret' = [cmd |-> <<"measure">> \o cl, res |-> "none"]
                         /\ UNCHANGED <<mode, cmds, exit>>
                    ELSE /\ mt' = None
                         /\ Outcome(<<"measure">> \o cl, "Invalid")
    /\ UNCHANGED <<now, pc, stop_flag, listener, display, hist, obs>>
    /\ UNCHANGED arg

\* lines 102 and 183-188: every token after "measure" is the command line; its
\* first token is the program.  An empty command line and a program that
\* cannot be launched are Invalid; otherwise the external command runs on.
Measure ==
    /\ \E cl \in CmdLines :
         /\ Fetch(<<"measure">> \o cl)
         /\ IF cl = <<>>
            THEN /\ Outcome(<<"measure">> \o cl, "Invalid")
                 /\ UNCHANGED <<mt, child>>
            ELSE /\ child' = Some([prog |-> cl[1], args |-> Tail(cl)])
                 /\ IF cl[1] \in Programs
                    THEN /\ mt' = Some(Timer_start(Timer_new, now).t)
                         /\ ret' = [cmd |-> <<"measure">> \o cl, res |-> "none"]
                         /\ UNCHANGED <<mode, cmds, exit>>
                    ELSE /\ mt' = None
                         /\ Outcome(<<"measure">> \o cl, "Invalid")
    /\ UNCHANGED <<now, t, pc, stop_flag, listener, display, hist, obs>>
    /\ UNCHANGED arg

\* lines 187-191: the external command has run to completion; stop, print,
\* and leave the process with its exit status, 1 when it has none
MeasureExit ==
    /\ mt # None
    /\ exit = None
    /\ \E status \in ExitStatuses :
         LET r == Timer_stop(Unwrap(mt), now)
             c == Unwrap(child)
         IN  /\ r.res = "Ok"
             /\ mt' = Some(r.t)
             /\ display' = Join(<<c.prog>> \o c.args, 1) \o " took "
                           \o format_duration(Timer_elapsed(r.t, now))
             /\ exit' = Some(IF IsSome(status) THEN Unwrap(status) ELSE 1)
    /\ UNCHANGED <<now, t, pc, stop_flag, listener, hist, obs, mode, cmds, ret, child>>
    /\ UNCHANGED arg

----------------------------------------------------------------------------
(* main.rs run_repl and run_batch *)

\* run_repl lines 72-78 and 87: the line exit or quit, or a failed read
ReplExit ==
    /\ mode = "repl"
    /\ pc = "idle"
    /\ mt = None
    /\ exit = None
    /\ exit' = Some(0)
    /\ UNCHANGED <<now, t, pc, stop_flag, listener, display, hist, obs, mode, cmds, ret, mt, child>>
    /\ UNCHANGED arg

\* run_batch lines 50-54: no command at all is exit code 2
BatchCheck ==
    /\ mode = "batch_check"
    /\ exit = None
    /\ IF cmds = <<>>
       THEN exit' = Some(2) /\ UNCHANGED mode
       ELSE mode' = "batch" /\ UNCHANGED exit
    /\ UNCHANGED <<now, t, pc, stop_flag, listener, display, hist, obs, cmds, ret, mt, child>>
    /\ UNCHANGED arg

\* run_batch line 61: every command has been dispatched and none failed
BatchDone ==
    /\ mode = "batch"
    /\ pc = "idle"
    /\ mt = None
    /\ exit = None
    /\ cmds = <<>>
    /\ exit' = Some(0)
    /\ UNCHANGED <<now, t, pc, stop_flag, listener, display, hist, obs, mode, cmds, ret, mt, child>>
    /\ UNCHANGED arg

----------------------------------------------------------------------------
(* main.rs run_watch: the main thread *)

cur == Len(stop_flag)   \* the session of the run_watch call in progress

\* an entry that hands the failure of start() back to dispatch
WatchEnter_Strict ==
    /\ Fetch(<<"watch">>)
    /\ Len(hist) < MaxCalls
    /\ Len(stop_flag) < MaxSessions
    /\ LET r == Timer_start(t, now)
       IN  /\ t' = r.t
           /\ hist' = Logged("start", "watch", r.res)
           /\ IF r.res = "Ok"
              THEN /\ stop_flag' = Append(stop_flag, FALSE)
                   /\ listener' = Append(listener, "read")
                   /\ obs' = NoObs
                   /\ pc' = "test"
                   /\ UNCHANGED caller
              ELSE /\ Outcome(<<"watch">>, r.res)
                   /\ UNCHANGED <<stop_flag, listener, obs, pc, mt, child>>
    /\ UNCHANGED <<now, display>>
    /\ UNCHANGED arg

\* lines 111-125: start ignoring the result, create the flag, spawn the listener
WatchEnter ==
    /\ Fetch(<<"watch">>)
    /\ Len(hist) < MaxCalls
    /\ Len(stop_flag) < MaxSessions
    /\ LET r == Timer_start(t, now)
       IN  /\ t' = r.t
           /\ hist' = Logged("start", "watch", r.res)
    /\ stop_flag' = Append(stop_flag, FALSE)
    /\ listener' = Append(listener, "read")
    /\ obs' = NoObs
    /\ pc' = "test"
    /\ UNCHANGED <<now, display>>
    /\ UNCHANGED caller
    /\ UNCHANGED arg

\* a loop that keeps the value the flag had on entry
WatchTest_Stale ==
    /\ pc = "test"
    /\ pc' = "render"
    /\ UNCHANGED <<now, t, stop_flag, listener, display, hist, obs>>
    /\ UNCHANGED caller
    /\ UNCHANGED arg

\* a loop that consumes the flag when it reads it (swap(false))
WatchTest_Swap ==
    /\ pc = "test"
    /\ pc' = IF stop_flag[cur] THEN "final" ELSE "render"
    /\ stop_flag' = [stop_flag EXCEPT ![cur] = FALSE]
    /\ UNCHANGED <<now, t, listener, display, hist, obs>>
    /\ UNCHANGED caller
    /\ UNCHANGED arg

\* line 127: while !stop_flag.load()
WatchTest ==
    /\ pc = "test"
    /\ pc' = IF stop_flag[cur] THEN "final" ELSE "render"
    /\ UNCHANGED <<now, t, stop_flag, listener, display, hist, obs>>
    /\ UNCHANGED caller
    /\ UNCHANGED arg

\* lines 128-130: print the elapsed time in place
WatchRender ==
    /\ pc = "render"
    /\ display' = format_duration(Timer_elapsed(t, now))
    /\ obs' = IF stop_flag[cur] THEN [obs EXCEPT !.renders = @ + 1] ELSE obs
    /\ pc' = "sleep"
    /\ UNCHANGED <<now, t, stop_flag, listener, hist>>
    /\ UNCHANGED caller
    /\ UNCHANGED arg

\* line 131: thread::sleep; the clock advances by Tick while the thread is here
WatchSleep ==
    /\ pc = "sleep"
    /\ obs' = IF stop_flag[cur] THEN [obs EXCEPT !.sleeps = @ + 1] ELSE obs
    /\ pc' = "test"
    /\ UNCHANGED <<now, t, stop_flag, listener, display, hist>>
    /\ UNCHANGED caller
    /\ UNCHANGED arg

\* a driver that stops the engine when it leaves the loop
WatchFinal_Stops ==
    /\ pc = "final"
    /\ t' = Timer_stop(t, now).t
    /\ display' = format_duration(Timer_elapsed(t', now))
    /\ obs' = [obs EXCEPT !.finals = @ + 1]
    /\ pc' = "idle"
    /\ Outcome(<<"watch">>, "Ok")
    /\ UNCHANGED <<now, stop_flag, listener, hist, mt, child>>
    /\ UNCHANGED arg

\* lines 134-136: the final render, then return to dispatch, which returns
\* Ok (line 98)
WatchFinal ==
    /\ pc = "final"
    /\ display' = format_duration(Timer_elapsed(t, now))
    /\ obs' = [obs EXCEPT !.finals = @ + 1]
    /\ pc' = "idle"
    /\ Outcome(<<"watch">>, "Ok")
    /\ UNCHANGED <<now, t, stop_flag, listener, hist, mt, child>>
    /\ UNCHANGED arg

(* main.rs run_watch: the listener thread of session s *)

\* line 119: read_line returns (the user pressed Enter)
ListenerRead(s) ==
    /\ listener[s] = "read"
    /\ listener' = [listener EXCEPT ![s] = "store"]
    /\ UNCHANGED <<now, t, pc, stop_flag, display, hist, obs>>
    /\ UNCHANGED caller
    /\ UNCHANGED arg

\* a listener that raises the flag and then waits for another line of input
ListenerStore_KeepsReading(s) ==
    /\ listener[s] = "store"
    /\ stop_flag' = [stop_flag EXCEPT ![s] = TRUE]
    /\ listener' = [listener EXCEPT ![s] = "read"]
    /\ UNCHANGED <<now, t, pc, display, hist, obs>>
    /\ UNCHANGED caller
    /\ UNCHANGED arg

\* line 120: stop_reader.store(true)
ListenerStore(s) ==
    /\ listener[s] = "store"
    /\ stop_flag' = [stop_flag EXCEPT ![s] = TRUE]
    /\ listener' = [listener EXCEPT ![s] = "done"]
    /\ UNCHANGED <<now, t, pc, display, hist, obs>>
    /\ UNCHANGED caller
    /\ UNCHANGED arg

Listener == \E s \in 1..Len(listener) : ListenerRead(s) \/ ListenerStore(s)

WatchStep == WatchTest \/ WatchRender \/ WatchSleep \/ WatchFinal

Next ==
    \/ Tick
    \/ Start
    \/ Stop
    \/ Reset
    \/ Elapsed
    \/ Lap
    \/ Unknown
    \/ Export
    \/ Measure
    \/ MeasureExit
    \/ ReplExit
    \/ BatchCheck
    \/ BatchDone
    \/ WatchEnter
    \/ WatchTest
    \/ WatchRender
    \/ WatchSleep
    \/ WatchFinal
    \/ \E s \in 1..Len(listener) : ListenerRead(s)
    \/ \E s \in 1..Len(listener) : ListenerStore(s)

Spec == Init /\ [][Next]_vars

\* A batch run (timer-cli run <cmds...>): main has chosen run_batch.
BatchInit == Init /\ mode = "batch_check"

BatchNext ==
    \/ Tick
    \/ Start
    \/ Stop
    \/ Reset
    \/ Elapsed
    \/ Lap
    \/ Unknown
    \/ Export
    \/ Measure
    \/ MeasureExit
    \/ BatchCheck
    \/ BatchDone
    \/ WatchEnter
    \/ WatchTest
    \/ WatchRender
    \/ WatchSleep
    \/ WatchFinal
    \/ \E s \in 1..Len(listener) : ListenerRead(s)
    \/ \E s \in 1..Len(listener) : ListenerStore(s)

\* The watch sessions of a batch run under a scheduler that runs both threads
\* of a session: a thread that can take a step eventually takes it.
FairSpec ==
    /\ BatchInit
    /\ [][BatchNext]_vars
    /\ WF_vars(WatchStep)
    /\ WF_vars(\E s \in 1..Len(listener) : ListenerStore(s))

\* Durations handed to format_duration directly, as Duration::new(secs, nanos)
FormatSecs == {0, 1, 9, 10, 59, 60, 61, 599, 600, 3599, 3600, 3661, 35999, 36000, 359999, 360000}

FormatNanos == {0, 999999, 1000000, 9999999, 10000000, 234000000, 234999999, 999999999}

FormatInputs == [secs : FormatSecs, nanos : FormatNanos]

\* Duration::as_millis of a Duration kept as whole seconds and sub-second nanoseconds
as_millis_of(dur) == dur.secs * 1000 + as_millis(dur.nanos)

\* a caller of the library that only formats one Duration (tests/stopwatch_tests.rs:26-30)
FormatInit ==
    /\ now = 0
    /\ t = Timer_new
    /\ pc = "idle"
    /\ stop_flag = <<>>
    /\ listener = <<>>
    /\ display = ""
    /\ hist = <<>>
    /\ obs = NoObs
    /\ mode = "repl"
    /\ cmds = <<>>
    /\ exit = None
    /\ ret = NoRet
    /\ mt = None
    /\ child = None
    /\ arg \in {Some(dur) : dur \in FormatInputs}

\* lib.rs:95-102 applied to the Duration arg
FormatCall ==
    /\ arg # None
    /\ display' = format_millis(as_millis_of(Unwrap(arg)))
    /\ UNCHANGED <<now, t, pc, stop_flag, listener, hist, obs, arg>>
    /\ UNCHANGED caller

FormatSpec == FormatInit /\ [][FormatCall]_vars

TypeOK ==
    /\ now \in 0..(MaxTicks * TickNanos)
    /\ t.running \in BOOLEAN
    /\ pc \in {"idle", "test", "render", "sleep", "final"}
    /\ Len(stop_flag) = Len(listener)
    /\ mode \in {"repl", "batch_check", "batch"}
    /\ exit \in {None, Some(0), Some(1), Some(2), Some(3)}
----------------------------------------------------------------------------
(* Reading the call log *)

LastCall == hist[Len(hist)]

\* this step is a call of op: the log grows by one entry of that operation
CallOf(op) == Len(hist') = Len(hist) + 1 /\ hist'[Len(hist')].op = op

Returned == hist'[Len(hist')].res

\* position of the last reset in the log, 0 if there is none
RECURSIVE LastResetIn(_, _)
LastResetIn(h, i) ==
    IF i = 0 THEN 0
    ELSE IF h[i].op = "reset" THEN i ELSE LastResetIn(h, i - 1)

\* Sum of (stop instant - start instant) over the matched successful
\* start/stop pairs of h[i..]; open is the instant of the unmatched start.
RECURSIVE PairSum(_, _, _)
PairSum(h, i, open) ==
    IF i > Len(h) THEN 0
    ELSE LET e == h[i] IN
         IF e.op = "start" /\ e.res = "Ok" THEN PairSum(h, i + 1, e.at)
         ELSE IF e.op = "stop" /\ e.res = "Ok"
              THEN (IF IsSome(open) THEN Unwrap(e.at) - Unwrap(open) ELSE 0)
                   + PairSum(h, i + 1, None)
              ELSE PairSum(h, i + 1, open)

Failed(op) == \E i \in 1..Len(hist) : hist[i].op = op /\ hist[i].res # "Ok"

----------------------------------------------------------------------------
(* C1: once the timer is not running, elapsed() is the sum of (stop time - *)
(* start time) over the matched successful start/stop pairs made since the *)
(* timer was fresh (constructed or reset); failed calls add nothing and no *)
(* interval is counted twice.                                              *)
C1_ElapsedIsSumOfPairs ==
    ~t.running =>
        Timer_elapsed(t, now) = PairSum(hist, LastResetIn(hist, Len(hist)) + 1, None)

\* a stopped timer after a failed start, a failed stop and a pair of positive length
C1_Witness ==
    /\ ~t.running
    /\ Failed("start")
    /\ Failed("stop")
    /\ Timer_elapsed(t, now) > 0
    /\ LastResetIn(hist, Len(hist)) = 0

(* C2: start() while running returns AlreadyRunning and leaves start_time, *)
(* elapsed, running and laps as they were.                                 *)
C2_StartWhileRunning ==
    [][(CallOf("start") /\ t.running) => (Returned = "AlreadyRunning" /\ t' = t)]_vars

\* a failed start on a timer that has been running for some time, with a lap
C2_Witness ==
    /\ Len(hist) > 0
    /\ LastCall.op = "start"
    /\ LastCall.res = "AlreadyRunning"
    /\ t.running
    /\ Len(t.laps) > 0
    /\ Unwrap(t.start_time) < now

(* C3: stop() while not running returns NotRunning and leaves elapsed,     *)
(* laps, running and the absent start_time as they were.                   *)
C3_StopWhileStopped ==
    [][(CallOf("stop") /\ ~t.running) => (Returned = "NotRunning" /\ t' = t)]_vars

\* a failed stop on an already stopped timer holding time and a lap
C3_Witness ==
    /\ Len(hist) > 0
    /\ LastCall.op = "stop"
    /\ LastCall.res = "NotRunning"
    /\ t.elapsed > 0
    /\ Len(t.laps) > 0

\* no successful start has been made since the last reset
NoStartSinceReset ==
    LET k == LastResetIn(hist, Len(hist))
    IN  /\ k > 0
        /\ \A i \in (k + 1)..Len(hist) : ~(hist[i].op = "start" /\ hist[i].res = "Ok")

(* C4: reset() never fails and yields the state of a fresh timer (elapsed  *)
(* zero, not running, start_time absent, no laps) from any state, and      *)
(* elapsed() read at any later time before the next start is 0.            *)
\* (the second conjunct is stated of the state every step leads to; it is
\* vacuous in the initial state, where no reset has been made)
C4_ResetYieldsFresh ==
    [][/\ CallOf("reset") => (Returned = "Ok" /\ t' = Timer_new)
       /\ NoStartSinceReset' => Timer_elapsed(t', now') = 0]_vars

\* a timer reset while running with a lap, read after the clock has advanced
C4_Witness ==
    /\ Len(hist) = 3
    /\ hist[1].op = "start" /\ hist[1].res = "Ok"
    /\ hist[2].op = "lap" /\ hist[2].res = "Ok"
    /\ hist[3].op = "reset"
    /\ Unwrap(hist[1].at) < now
    /\ t = Timer_new

(* C5: lap(label) while not running returns NotRunning and appends         *)
(* nothing: laps, elapsed, running and start_time are unchanged.           *)
C5_LapWhileStopped ==
    [][(CallOf("lap") /\ ~t.running) => (Returned = "NotRunning" /\ t' = t)]_vars

\* a failed lap on a stopped timer that holds time and an earlier lap
C5_Witness ==
    /\ Len(hist) > 0
    /\ LastCall.op = "lap"
    /\ LastCall.res = "NotRunning"
    /\ Len(t.laps) > 0
    /\ t.elapsed > 0

C7_OriginIffRunning == IsSome(t.start_time) <=> t.running

\* a timer started again after a stop, and one stopped after running
C7_Witness ==
    /\ t.running
    /\ IsSome(t.start_time)
    /\ t.elapsed > 0
    /\ Failed("start")
(* C8 as stated: elapsed() >= accumulated at every clock reading, with     *)
(* equality if and only if the timer is not running.                       *)
C8_Original ==
    LET e == Timer_elapsed(t, now)
    IN  /\ e >= t.elapsed
        /\ (e = t.elapsed) <=> ~t.running

(* C8 amended: elapsed() >= accumulated at every clock reading; they are   *)
(* equal whenever the timer is not running, and while it is running they   *)
(* are equal exactly when the clock still reads the start instant.         *)
C8_ElapsedAtLeastAccumulated ==
    LET e == Timer_elapsed(t, now)
    IN  /\ e >= t.elapsed
        /\ (e = t.elapsed) <=> (~t.running \/ Unwrap(t.start_time) = now)

\* a timer restarted with time accumulated, read at the instant of its start
C8_Witness ==
    /\ t.running
    /\ t.elapsed > 0
    /\ Unwrap(t.start_time) = now
    /\ Timer_elapsed(t, now) = t.elapsed

(* C9: once the flag of a watch session is raised the loop makes at most   *)
(* one more in-loop render and one more sleep, then exactly one final      *)
(* render, and run_watch returns; it returns only with the flag raised.    *)
(* Under fair scheduling, once the input line has arrived run_watch        *)
(* eventually returns.                                                     *)
C9_PromptExit ==
    /\ [][/\ obs'.renders <= 1
          /\ obs'.sleeps <= 1
          /\ obs'.finals <= 1
          /\ (pc # "idle" /\ pc' = "idle") => (obs'.finals = 1 /\ stop_flag[cur])]_vars
    /\ (pc # "idle" /\ listener[cur] # "read") ~> (pc = "idle")

\* a session that returned after one render and one sleep under a raised flag
C9_Witness ==
    /\ pc = "idle"
    /\ obs.renders = 1
    /\ obs.sleeps = 1
    /\ obs.finals = 1

(* C10: the watch driver never calls stop(); no step of run_watch after    *)
(* its entry (the loop, the final render, the return) changes the engine,  *)
(* and entering or being in a watch session keeps a running engine on the  *)
(* same start instant with the same accumulated time, so elapsed() does    *)
(* not go back across successive sessions.                                 *)
C10_WatchNeverStops ==
    [][/\ CallOf("stop") => hist'[Len(hist')].by = "dispatch"
       /\ pc # "idle" => (t' = t /\ hist' = hist)
       /\ ((pc # "idle" \/ pc' # "idle") /\ t.running) =>
             /\ t'.running
             /\ t'.start_time = t.start_time
             /\ t'.elapsed = t.elapsed
             /\ Timer_elapsed(t', now') >= Timer_elapsed(t, now)]_vars

\* two finished sessions on one running interval begun by the first one
C10_Witness ==
    /\ pc = "idle"
    /\ Len(stop_flag) = 2
    /\ Len(hist) = 2
    /\ hist[1].by = "watch" /\ hist[1].res = "Ok"
    /\ hist[2].by = "watch" /\ hist[2].res = "AlreadyRunning"
    /\ t.running
    /\ t.start_time = hist[1].at
    /\ Timer_elapsed(t, now) > 0
----------------------------------------------------------------------------
\* this step is the entry of run_watch: its start() is logged by "watch"
WatchEntry == CallOf("start") /\ hist'[Len(hist')].by = "watch"

\* this step is an engine call made by dispatch itself
DispatchCall == Len(hist') = Len(hist) + 1 /\ hist'[Len(hist')].by = "dispatch"

(* C11: on entry to watch a stopped engine is started (start_time = now,   *)
(* running, elapsed and laps unchanged) and a running engine is left as it *)
(* is; the result of that start() reaches neither dispatch nor the caller, *)
(* the session begins in both cases and the watch command returns Ok.      *)
(* Every failure of an engine call made by dispatch itself is returned to  *)
(* the caller.                                                             *)
C11_WatchEntryEnsuresRunning ==
    [][/\ WatchEntry =>
             /\ ~t.running =>
                    /\ Returned = "Ok"
                    /\ t' = [t EXCEPT !.start_time = Some(now), !.running = TRUE]
             /\ t.running => (Returned = "AlreadyRunning" /\ t' = t)
             /\ pc' = "test"
             /\ ret' = ret /\ exit' = exit
       /\ (pc # "idle" /\ pc' = "idle") =>
             /\ ret' = [cmd |-> <<"watch">>, res |-> "Ok"]
             /\ exit' = None
       /\ DispatchCall => ret'.res = Returned]_vars

\* a batch run of start and watch that ended with exit code 0
C11_Witness ==
    /\ mode = "batch"
    /\ Len(hist) = 2
    /\ hist[1].by = "dispatch" /\ hist[1].res = "Ok"
    /\ hist[2].by = "watch" /\ hist[2].res = "AlreadyRunning"
    /\ ret = [cmd |-> <<"watch">>, res |-> "Ok"]
    /\ t.start_time = hist[1].at
    /\ exit = Some(0)

(* C12: the flag of a session is created false; it changes only in the     *)
(* store of that session's listener, after its read, from false to true,   *)
(* and never goes back; a listener goes from reading to storing to done    *)
(* and its steps leave the engine alone; the steps of the loop leave the   *)
(* flag and the engine as they are, so the engine is the same at every     *)
(* poll.                                                                   *)
C12_FlagAndListener ==
    [][/\ Len(stop_flag') > Len(stop_flag) =>
             /\ Len(stop_flag') = Len(stop_flag) + 1
             /\ stop_flag'[Len(stop_flag')] = FALSE
             /\ listener'[Len(listener')] = "read"
       /\ \A s \in 1..Len(stop_flag) :
             /\ stop_flag[s] => stop_flag'[s]
             /\ stop_flag'[s] # stop_flag[s] =>
                    (listener[s] = "store" /\ listener'[s] = "done")
             /\ listener'[s] # listener[s] =>
                    /\ <<listener[s], listener'[s]>> \in {<<"read", "store">>, <<"store", "done">>}
                    /\ t' = t /\ hist' = hist /\ pc' = pc
       /\ pc # "idle" => (t' = t /\ hist' = hist)
       /\ (pc # "idle" /\ pc' # pc) => stop_flag' = stop_flag]_vars

\* the flag was raised by the listener between the loop's test and its render
C12_Witness ==
    /\ pc = "render"
    /\ stop_flag[cur]
    /\ listener[cur] = "done"
    /\ t.running
    /\ Unwrap(t.start_time) < now
----------------------------------------------------------------------------
IsError(res) == res \in {"AlreadyRunning", "NotRunning", "Invalid"}

\* this step is a dispatch that returned an error to the caller
FailedDispatch ==
    /\ ret' # ret \/ Len(hist') > Len(hist)
    /\ pc' = "idle"
    /\ IsError(ret'.res)

(* C13 as stated: a batch run ends with exit code 2 on an empty list, 1    *)
(* when some command failed (a measured command without a status counted   *)
(* as a failure) and 0 when no command failed; the REPL ends with exit     *)
(* code 0.                                                                 *)
C13_Original ==
    exit # None =>
        IF mode = "repl" THEN exit = Some(0)
        ELSE \/ exit = Some(2) /\ mode = "batch_check" /\ cmds = <<>>
             \/ exit = Some(1) /\ (IsError(ret.res) \/ mt # None)
             \/ exit = Some(0) /\ ~IsError(ret.res)

(* C13 amended: unless measure_command terminates the process (then the    *)
(* exit code is the external command's status, 1 if it has none), a batch  *)
(* run ends with 2 on an empty list, with 1 at the first command that      *)
(* fails, and with 0 when the list is exhausted and the last command       *)
(* returned Ok; a terminated process takes no further step, so no later    *)
(* command is dispatched.  In the REPL a failing command leaves the engine *)
(* and the session as they are, and the REPL ends with exit code 0.        *)
C13_ExitCodes ==
    [][/\ exit = None
       /\ (mode = "batch_check" /\ cmds = <<>>) => mode' = "batch_check"
       /\ (mode = "batch_check" /\ cmds # <<>>) => exit' = None
       /\ (mode' = "batch_check" /\ exit' # None) => (exit' = Some(2) /\ cmds' = <<>>)
       /\ FailedDispatch =>
             /\ t' = t
             /\ exit' = IF mode = "batch" THEN Some(1) ELSE None
       /\ (mode' = "batch" /\ exit' # None /\ mt' = None) =>
             \/ exit' = Some(1) /\ IsError(ret'.res)
             \/ exit' = Some(0) /\ cmds' = <<>> /\ ret'.res = "Ok"
       /\ (mode' = "repl" /\ exit' # None /\ mt' = None) => exit' = Some(0)
       /\ (mt' # None /\ exit' # None) =>
             exit' \in {Some(1)} \cup (ExitStatuses \ {None})]_vars

\* a batch run stopped by its first command, the second one never taken
C13_Witness ==
    /\ mode = "batch"
    /\ exit = Some(1)
    /\ ret = [cmd |-> <<"stop">>, res |-> "NotRunning"]
    /\ cmds = <<(<<"start">>)>>
    /\ t = Timer_new

(* C14: for the input measure -- c a1 ... an the external command that is  *)
(* run is c with the arguments a1 ... an, on a fresh engine, and dispatch  *)
(* does not return Invalid when c can be launched.                         *)
C14_MeasureRunsCommand ==
    (Len(ret.cmd) >= 3 /\ ret.cmd[1] = "measure" /\ ret.cmd[2] = "--") =>
        /\ child # None
        /\ Unwrap(child).prog = ret.cmd[3]
        /\ Unwrap(child).args = SubSeq(ret.cmd, 4, Len(ret.cmd))
        /\ ret.cmd[3] \in Programs => ret.res # "Invalid"

\* the command vocabulary of dispatch (main.rs:94-104)
Vocabulary ==
    {"start", "stop", "reset", "elapsed", "watch", "lap", "laps", "export", "measure",
     "-h", "--help", "-V", "--version"}

\* the cases of the claim in which dispatch is to return Invalid
InvalidCase(cmd) ==
    \/ cmd = <<>>
    \/ cmd[1] \notin Vocabulary
    \/ cmd[1] = "export" /\ Len(cmd) >= 2 /\ cmd[2] \notin {"json", "csv"}
    \/ cmd[1] = "measure" /\ (Len(cmd) = 1 \/ cmd[2] \notin Programs)

(* C15: dispatch returns Invalid exactly for a first token outside the     *)
(* vocabulary (the empty line included), an export format other than json  *)
(* or csv, a measure without a command line and an external command that   *)
(* cannot be launched, and then leaves the caller's engine unchanged; the  *)
(* engine itself never returns Invalid: start fails only with              *)
(* AlreadyRunning, stop and lap only with NotRunning, reset and elapsed    *)
(* never fail.                                                             *)
C15_InvalidLeavesEngine ==
    [][/\ (FailedDispatch /\ ret'.res = "Invalid") => (t' = t /\ hist' = hist)
       /\ (ret' # ret /\ ret'.res # "none") =>
             (ret'.res = "Invalid" <=> InvalidCase(ret'.cmd))
       /\ (ret' # ret /\ ret'.cmd = <<"elapsed">>) => ret'.res = "Ok"
       /\ Len(hist') > Len(hist) =>
             LET e == hist'[Len(hist')]
             IN  /\ e.op = "start" => e.res \in {"Ok", "AlreadyRunning"}
                 /\ e.op \in {"stop", "lap"} => e.res \in {"Ok", "NotRunning"}
                 /\ e.op = "reset" => e.res = "Ok"]_vars

\* a running engine left running by a measure whose program cannot be launched
C15_Witness ==
    /\ ret = [cmd |-> <<"measure", "nosuch">>, res |-> "Invalid"]
    /\ t.running
    /\ Len(hist) = 1
    /\ mt = None
    /\ exit = Some(1)
(* C16 as stated: any two laps recorded one after the other have strictly  *)
(* increasing at_ms, and elapsed() in milliseconds is at least the last    *)
(* lap's at_ms.                                                            *)
C16_Original ==
    /\ \A i \in 1..(Len(t.laps) - 1) : t.laps[i].at_ms < t.laps[i + 1].at_ms
    /\ t.laps # <<>> => as_millis(Timer_elapsed(t, now)) >= t.laps[Len(t.laps)].at_ms

(* C16 amended: laps recorded one after the other have non-decreasing      *)
(* at_ms (equal when both fall into the same millisecond of elapsed time), *)
(* no at_ms exceeds the elapsed time in milliseconds at any later moment,  *)
(* running or stopped.                                                     *)
C16_LapOffsetsOrdered ==
    /\ \A i \in 1..(Len(t.laps) - 1) : t.laps[i].at_ms <= t.laps[i + 1].at_ms
    /\ \A i \in 1..Len(t.laps) : as_millis(Timer_elapsed(t, now)) >= t.laps[i].at_ms

\* new, start, lap, lap, stop, elapsed with the laps a millisecond apart
C16_Witness ==
    /\ Len(hist) = 4
    /\ LastCall.op = "stop" /\ LastCall.res = "Ok"
    /\ Len(t.laps) = 2
    /\ t.laps[1].at_ms = 0
    /\ t.laps[2].at_ms = 1
    /\ ret.cmd = <<"elapsed">>
    /\ display = "00:00:00.001"

IsPrefix(p, q) == Len(p) <= Len(q) /\ SubSeq(q, 1, Len(p)) = p

(* C17: every step other than a reset keeps the lap sequence as a prefix   *)
(* of the new one, with every existing record unchanged; a successful lap  *)
(* appends exactly one record and leaves elapsed, running and start_time   *)
(* unchanged; every other step, reset apart, leaves the laps as they are.  *)
C17_LapsOnlyGrow ==
    [][/\ ~CallOf("reset") => IsPrefix(t.laps, t'.laps)
       /\ (CallOf("lap") /\ Returned = "Ok") =>
             /\ Len(t'.laps) = Len(t.laps) + 1
             /\ t'.elapsed = t.elapsed
             /\ t'.running = t.running
             /\ t'.start_time = t.start_time
       /\ (~CallOf("reset") /\ ~(CallOf("lap") /\ Returned = "Ok")) => t'.laps = t.laps
       /\ CallOf("reset") => t'.laps = <<>>]_vars

\* a second lap has just been appended behind a first one that differs from it
C17_Witness ==
    /\ hist # <<>>
    /\ LastCall.op = "lap" /\ LastCall.res = "Ok"
    /\ Len(t.laps) = 2
    /\ t.laps[1].label # t.laps[2].label
    /\ t.laps[1].at_ms # t.laps[2].at_ms

(* C19: elapsed() returns elapsed when stopped and elapsed plus the time   *)
(* since start_time when running and changes no field of the Timer; the    *)
(* elapsed field changes only in a successful stop, where it grows by the  *)
(* time since start_time, and in reset, where it becomes zero.             *)
C19_ElapsedIsPure ==
    [][/\ Timer_elapsed(t', now') =
             IF t'.running THEN t'.elapsed + (now' - Unwrap(t'.start_time))
             ELSE t'.elapsed
       /\ t' # t => Len(hist') = Len(hist) + 1
       /\ display' # display => t' = t
       /\ (ret'.cmd = <<"elapsed">> /\ display' # display) =>
             display' = format_duration(Timer_elapsed(t, now))
       /\ t'.elapsed # t.elapsed =>
             \/ /\ CallOf("stop") /\ Returned = "Ok" /\ t.running
                /\ t'.elapsed = t.elapsed + (now - Unwrap(t.start_time))
             \/ CallOf("reset") /\ t'.elapsed = 0
       /\ (CallOf("stop") /\ Returned = "Ok") =>
             t'.elapsed = t.elapsed + (now - Unwrap(t.start_time))]_vars

\* elapsed queried in a second running interval, some time after its start
C19_Witness ==
    /\ t.running
    /\ t.elapsed > 0
    /\ now > Unwrap(t.start_time)
    /\ ret.cmd = <<"elapsed">>
    /\ display = format_duration(t.elapsed + (now - Unwrap(t.start_time)))
    /\ display = "00:00:00.001"

(* C20: the watch loop is left only when the session's flag is up, which   *)
(* only the session's own listener raises after its single read; when      *)
(* run_watch has returned no listener is waiting on input, every earlier   *)
(* session's listener is finished while a later session runs, and a        *)
(* finished listener never reads again.                                    *)
C20_NoStaleListener ==
    [][/\ (pc # pc' /\ pc' \in {"final", "idle"}) =>
             (stop_flag[cur] /\ listener[cur] = "done")
       /\ \A s \in 1..Len(listener') :
             (pc' = "idle" \/ s < Len(listener')) =>
                 (listener'[s] = "done" /\ stop_flag'[s])
       /\ \A s \in 1..Len(listener) :
             listener[s] = "done" => listener'[s] = "done"
       /\ \A s \in 1..Len(listener) :
             (stop_flag'[s] # stop_flag[s]) => (s = cur /\ pc # "idle")]_vars

\* a second session polls while its listener waits and the first one is finished
C20_Witness ==
    /\ pc = "sleep"
    /\ listener = <<"done", "read">>
    /\ stop_flag = <<TRUE, FALSE>>
    /\ ret.cmd = <<"watch">>
    /\ ret.res = "Ok"
DigitChar == <<"0", "1", "2", "3", "4", "5", "6", "7", "8", "9">>

Digit(k) == DigitChar[k + 1]

RECURSIVE Decimal(_)
Decimal(n) == IF n < 10 THEN Digit(n) ELSE Decimal(n \div 10) \o Digit(n % 10)

TwoDigits(n) == IF n < 100 THEN Digit(n \div 10) \o Digit(n % 10) ELSE Decimal(n)

ThreeDigits(n) == Digit(n \div 100) \o Digit((n \div 10) % 10) \o Digit(n % 10)

(* C18: format_duration of a Duration of ms whole milliseconds (what is    *)
(* left below a millisecond is dropped) prints h = ms/3600000,             *)
(* m = (ms%3600000)/60000, s = (ms%60000)/1000 and mmm = ms%1000 as        *)
(* HH:MM:SS.mmm with leading zeros; m < 60, s < 60, mmm < 1000 and the     *)
(* fields add up to ms again; 1 ms prints as 00:00:00.001, 10 ms as        *)
(* 00:00:00.010 and 3661234 ms as 01:01:01.234.                            *)
C18_FormatFields ==
    (arg # None /\ display # "") =>
        LET ms  == Unwrap(arg).secs * 1000 + Unwrap(arg).nanos \div 1000000
            h   == ms \div 3600000
            m   == (ms % 3600000) \div 60000
            s   == (ms % 60000) \div 1000
            mmm == ms % 1000
        IN  /\ m < 60 /\ s < 60 /\ mmm < 1000
            /\ h * 3600000 + m * 60000 + s * 1000 + mmm = ms
            /\ display = TwoDigits(h) \o ":" \o TwoDigits(m) \o ":" \o TwoDigits(s)
                            \o "." \o ThreeDigits(mmm)
            /\ ms = 1 => display = "00:00:00.001"
            /\ ms = 10 => display = "00:00:00.010"
            /\ ms = 3661234 => display = "01:01:01.234"

\* 3661234 ms and 999999 ns more have been formatted
C18_Witness ==
    /\ arg = Some([secs |-> 3661, nanos |-> 234999999])
    /\ display = "01:01:01.234"
====
